---- MODULE Spec2Model ----
(***************************************************************************)
(* Model of tools/generate_sprites.py: the sprite generators, the faction  *)
(* tint apply_faction_tint and the driver main.                            *)
(*                                                                         *)
(* Canvases are Python objects: the heap is a sequence of canvases and a   *)
(* canvas is referred to by its index, so that a copy and an alias differ. *)
(* Python floats are IEEE-754 doubles; the blend of apply_faction_tint is  *)
(* computed with the rounding of every double operation.                   *)
(***************************************************************************)
EXTENDS Integers, Sequences, FiniteSets, TLC

VARIABLES pc, heap, sprites, dirs, files, writes, fi, si, tinted, args, ret

vars == <<pc, heap, sprites, dirs, files, writes, fi, si, tinted, args, ret>>

(***************************************************************************)
(* Bounds of the model.                                                    *)
(***************************************************************************)
\* sizes 1..MaxSize, and the sizes main passes, are passed to the generators
\* in GenSpec
MaxSize == 12
\* input canvases of TintSpec drawn from the palette have at most MaxPixels pixels
MaxPixels == 2

Min(a, b) == IF a <= b THEN a ELSE b
Max(a, b) == IF a >= b THEN a ELSE b
Abs(a) == IF a >= 0 THEN a ELSE -a

(***************************************************************************)
(* Python float arithmetic.  A double v >= 0 is held exactly as the        *)
(* integer v * 2^60 in four limbs of 20 bits, least significant first, so  *)
(* the fourth limb is the integer part.  Every value met here is 0 or at   *)
(* least 2^-7 and below 2^12, so it is a multiple of 2^-60 and rounding to *)
(* 53 significant bits only ever drops bits of the first limb.             *)
(***************************************************************************)
LimbBits == 20
LimbBase == 2^LimbBits
MantissaBits == 53

RECURSIVE BitLen(_)
BitLen(n) == IF n = 0 THEN 0 ELSE 1 + BitLen(n \div 2)

\* carry propagation between limbs
FNorm(a) ==
    LET s2 == a[2] + a[1] \div LimbBase
        s3 == a[3] + s2 \div LimbBase
    IN  <<a[1] % LimbBase, s2 % LimbBase, s3 % LimbBase, a[4] + s3 \div LimbBase>>

FBitLen(a) ==
    IF a[4] # 0 THEN 3 * LimbBits + BitLen(a[4])
    ELSE IF a[3] # 0 THEN 2 * LimbBits + BitLen(a[3])
    ELSE IF a[2] # 0 THEN LimbBits + BitLen(a[2])
    ELSE BitLen(a[1])

\* round to nearest double, ties to even; sticky: a nonzero remainder lies
\* below the last limb
FRound(a, sticky) ==
    LET s == FBitLen(a) - MantissaBits
    IN  IF s <= 0 THEN a
        ELSE LET low  == a[1] % (2^s)
                 half == 2^(s - 1)
                 odd  == (a[1] \div (2^s)) % 2 = 1
                 up   == low > half \/ (low = half /\ (sticky \/ odd))
             IN  FNorm(<<a[1] - low + (IF up THEN 2^s ELSE 0), a[2], a[3], a[4]>>)

\* the double a decimal literal n/d denotes (0.35 is FloatLit(35, 100))
FloatLit(n, d) ==
    LET q4 == n \div d
        r4 == n % d
        q3 == (r4 * LimbBase) \div d
        r3 == (r4 * LimbBase) % d
        q2 == (r3 * LimbBase) \div d
        r2 == (r3 * LimbBase) % d
        q1 == (r2 * LimbBase) \div d
        r1 == (r2 * LimbBase) % d
    IN  FRound(<<q1, q2, q3, q4>>, r1 # 0)

\* 1 - t for 0 <= t <= 1
FOneMinus(t) ==
    LET b1 == IF t[1] > 0 THEN 1 ELSE 0
        b2 == IF t[2] + b1 > 0 THEN 1 ELSE 0
        b3 == IF t[3] + b2 > 0 THEN 1 ELSE 0
    IN  FRound(<<(LimbBase - t[1]) % LimbBase,
                 (LimbBase - t[2] - b1) % LimbBase,
                 (LimbBase - t[3] - b2) % LimbBase,
                 1 - t[4] - b3>>, FALSE)

\* int * float
FMulInt(c, a) == FRound(FNorm(<<c * a[1], c * a[2], c * a[3], c * a[4]>>), FALSE)

\* float + float
FAdd(a, b) == FRound(FNorm(<<a[1] + b[1], a[2] + b[2], a[3] + b[3], a[4] + b[4]>>), FALSE)

\* int(float): truncation toward zero of a value >= 0
FInt(a) == a[4]

\* exact comparisons of a double a >= 0 with an integer n >= 0
FGeqInt(a, n) == a[4] >= n
FLtInt(a, n) == a[4] < n
\* the fraction of a is at least one half
FFracGeqHalf(a) == a[3] >= LimbBase \div 2

(***************************************************************************)
(* Canvases and the drawing primitives of the raster library.              *)
(***************************************************************************)
Transparent == <<0, 0, 0, 0>>

\* the pixels of a canvas are its rows, top to bottom, each row its pixels
\* from left to right: the pixel at (x, y) is px[y + 1][x + 1]
Grid(w, h, color) == [y \in 1 .. h |-> [x \in 1 .. w |-> color]]

\* a canvas whose width and height are exchanged
ImageNew_transposed(w, h, color) ==
    [width |-> h, height |-> w, px |-> Grid(h, w, color)]

\* Image.new("RGBA", (w, h), color)
ImageNew(w, h, color) ==
    [width |-> w, height |-> h, px |-> Grid(w, h, color)]

Rectangle(x0, y0, x1, y1, fill) ==
    [kind |-> "rectangle", xy |-> <<x0, y0, x1, y1>>, fill |-> fill]
Ellipse(x0, y0, x1, y1, fill) ==
    [kind |-> "ellipse", xy |-> <<x0, y0, x1, y1>>, fill |-> fill]
Polygon(points, fill) ==
    [kind |-> "polygon", xy |-> points, fill |-> fill]
Line(x0, y0, x1, y1, fill, width) ==
    [kind |-> "line", xy |-> <<x0, y0, x1, y1>>, fill |-> fill, width |-> width]
Arc(x0, y0, x1, y1, start, end, fill, width) ==
    [kind |-> "arc", xy |-> <<x0, y0, x1, y1>>, start |-> start, end |-> end,
     fill |-> fill, width |-> width]

InBox(b, x, y) ==
    /\ Min(b[1], b[3]) <= x /\ x <= Max(b[1], b[3])
    /\ Min(b[2], b[4]) <= y /\ y <= Max(b[2], b[4])

InEllipse(b, x, y) ==
    LET w == b[3] - b[1]
        h == b[4] - b[2]
        u == 2 * x - b[1] - b[3]
        v == 2 * y - b[2] - b[4]
    IN  /\ b[1] <= x /\ x <= b[3] /\ b[2] <= y /\ y <= b[4]
        /\ u * u * h * h + v * v * w * w <= w * w * h * h

\* (x, y) lies on the segment p-q
OnSegment(p, q, x, y) ==
    /\ (x - p[1]) * (q[2] - p[2]) = (y - p[2]) * (q[1] - p[1])
    /\ Min(p[1], q[1]) <= x /\ x <= Max(p[1], q[1])
    /\ Min(p[2], q[2]) <= y /\ y <= Max(p[2], q[2])

\* the horizontal ray from (x, y) to the right crosses the segment p-q
Crosses(p, q, x, y) ==
    /\ (p[2] > y) # (q[2] > y)
    /\ IF q[2] > p[2]
       THEN (x - p[1]) * (q[2] - p[2]) < (y - p[2]) * (q[1] - p[1])
       ELSE (x - p[1]) * (q[2] - p[2]) > (y - p[2]) * (q[1] - p[1])

InPolygon(pts, x, y) ==
    LET n == Len(pts)
        nxt(i) == pts[(i % n) + 1]
    IN  \/ \E i \in 1 .. n : OnSegment(pts[i], nxt(i), x, y)
        \/ Cardinality({i \in 1 .. n : Crosses(pts[i], nxt(i), x, y)}) % 2 = 1

OnLine(b, width, x, y) ==
    LET dx == b[3] - b[1]
        dy == b[4] - b[2]
        m  == Max(Abs(dx), Abs(dy))
        cr == (x - b[1]) * dy - (y - b[2]) * dx
        pr == (x - b[1]) * dx + (y - b[2]) * dy
    IN  IF m = 0 THEN x = b[1] /\ y = b[2]
        ELSE /\ 0 <= pr /\ pr <= dx * dx + dy * dy
             /\ -(width * m) < 2 * cr /\ 2 * cr <= width * m

\* angles are degrees clockwise from three o'clock; the quadrant of a point
\* decides whether it lies between start and end
OnArc(b, start, end, width, x, y) ==
    LET u == 2 * x - b[1] - b[3]
        v == 2 * y - b[2] - b[4]
        q == IF v >= 0 THEN (IF u > 0 THEN 0 ELSE 90)
             ELSE (IF u <= 0 THEN 180 ELSE 270)
    IN  /\ InEllipse(b, x, y)
        /\ ~InEllipse(<<b[1] + width, b[2] + width, b[3] - width, b[4] - width>>, x, y)
        /\ start <= q /\ q < end

Covers(cmd, x, y) ==
    CASE cmd.kind = "rectangle" -> InBox(cmd.xy, x, y)
      [] cmd.kind = "ellipse"   -> InEllipse(cmd.xy, x, y)
      [] cmd.kind = "polygon"   -> InPolygon(cmd.xy, x, y)
      [] cmd.kind = "line"      -> OnLine(cmd.xy, cmd.width, x, y)
      [] cmd.kind = "arc"       -> OnArc(cmd.xy, cmd.start, cmd.end, cmd.width, x, y)

\* the pixel at (x, y) after the first k drawing calls: a drawing call
\* overwrites all four channels of the pixels it covers
RECURSIVE PixelAfter(_, _, _, _, _)
PixelAfter(img, cmds, k, x, y) ==
    IF k = 0 THEN img.px[y + 1][x + 1]
    ELSE IF Covers(cmds[k], x, y) THEN cmds[k].fill
    ELSE PixelAfter(img, cmds, k - 1, x, y)

\* draw = ImageDraw.Draw(img) followed by the drawing calls cmds, in order
Draw(img, cmds) ==
    [img EXCEPT !.px = [y \in 1 .. img.height |-> [x \in 1 .. img.width |->
                            PixelAfter(img, cmds, Len(cmds), x - 1, y - 1)]]]

(***************************************************************************)
(* The shape generators.                                                   *)
(***************************************************************************)
create_infantry_sprite(size) ==
    LET cx == size \div 2
        cy == size \div 2
        head_r == size \div 8
        body_top == 4 + head_r * 2
        body_bottom == cy + size \div 4
        leg_w == size \div 10
    IN  Draw(ImageNew(size, size, Transparent), <<
          Ellipse(cx - head_r, 4, cx + head_r, 4 + head_r * 2, <<200, 200, 200, 255>>),
          Rectangle(cx - size \div 6, body_top, cx + size \div 6, body_bottom,
                    <<100, 100, 100, 255>>),
          Rectangle(cx - size \div 5, body_bottom, cx - size \div 5 + leg_w, size - 4,
                    <<80, 80, 80, 255>>),
          Rectangle(cx + size \div 5 - leg_w, body_bottom, cx + size \div 5, size - 4,
                    <<80, 80, 80, 255>>),
          Rectangle(cx - size \div 4, body_top + 2, cx - size \div 6, body_bottom - 4,
                    <<100, 100, 100, 255>>),
          Rectangle(cx + size \div 6, body_top + 2, cx + size \div 4, body_bottom - 4,
                    <<100, 100, 100, 255>>),
          Line(cx + size \div 4, body_top + 4, cx + size \div 3 + 4, body_top - 4,
               <<60, 60, 60, 255>>, 2) >>)

create_ranger_sprite(size) ==
    LET cx == size \div 2
        head_r == size \div 10
        body_top == 3 + head_r * 2
    IN  Draw(ImageNew(size, size, Transparent), <<
          Ellipse(cx - head_r - 1, 2, cx + head_r + 1, 2 + head_r * 2 + 2,
                  <<60, 80, 60, 255>>),
          Ellipse(cx - head_r, 3, cx + head_r, 3 + head_r * 2, <<180, 160, 140, 255>>),
          Polygon(<< <<cx, body_top>>,
                     <<cx - size \div 4, size - 6>>,
                     <<cx + size \div 4, size - 6>> >>, <<50, 70, 50, 255>>),
          Line(cx - 2, body_top + 4, cx + size \div 2 - 2, 0, <<40, 40, 40, 255>>, 3),
          Ellipse(cx + size \div 4 - 1, 2, cx + size \div 4 + 2, 5,
                  <<100, 200, 255, 255>>) >>)

create_harvester_sprite(size) ==
    LET body_margin == 4
        cab_w == size \div 3
        cx == size \div 2
        track_y == size - 5
        y(i) == size \div 2 + 4 + i * 4
    IN  Draw(ImageNew(size, size, Transparent), <<
          Rectangle(body_margin, size \div 3, size - body_margin, size - 6,
                    <<180, 140, 60, 255>>),
          Rectangle(cx - cab_w \div 2, 6, cx + cab_w \div 2, size \div 3 + 2,
                    <<160, 120, 40, 255>>),
          Rectangle(cx - cab_w \div 4, 8, cx + cab_w \div 4, size \div 4,
                    <<100, 180, 220, 255>>),
          Polygon(<< <<2, size - 8>>,
                     <<body_margin, size \div 2>>,
                     <<body_margin + size \div 4, size \div 2>>,
                     <<body_margin + size \div 4 + 2, size - 8>> >>,
                  <<120, 100, 40, 255>>),
          Ellipse(body_margin, track_y - 3, body_margin + 8, track_y + 3,
                  <<40, 40, 40, 255>>),
          Ellipse(size - body_margin - 8, track_y - 3, size - body_margin, track_y + 3,
                  <<40, 40, 40, 255>>) >>
          \o [i \in 1 .. 3 |->
                Line(body_margin + 4, y(i - 1), size - body_margin - 4, y(i - 1),
                     <<140, 100, 40, 255>>, 1)])

create_depot_sprite(size) ==
    LET margin == 4
        win_color == <<80, 160, 200, 255>>
        win_size == 6
        wx(col) == margin + 8 + col * 12
        wy(row) == size \div 4 + 8 + row * 14
        door_w == 12
        door_h == 16
        cx == size \div 2
    IN  Draw(ImageNew(size, size, Transparent), <<
          Rectangle(margin, size \div 4, size - margin, size - margin,
                    <<100, 110, 130, 255>>),
          Polygon(<< <<margin, size \div 4>>,
                     <<size \div 2, margin>>,
                     <<size - margin, size \div 4>> >>, <<70, 80, 100, 255>>) >>
          \o [k \in 1 .. 8 |->
                Rectangle(wx((k - 1) % 4), wy((k - 1) \div 4),
                          wx((k - 1) % 4) + win_size, wy((k - 1) \div 4) + win_size,
                          win_color)]
          \o <<
          Rectangle(cx - door_w \div 2, size - margin - door_h, cx + door_w \div 2,
                    size - margin, <<60, 50, 40, 255>>),
          Line(size - margin - 8, margin + 4, size - margin - 8, size \div 4,
               <<80, 80, 80, 255>>, 2),
          Ellipse(size - margin - 11, margin + 1, size - margin - 5, margin + 7,
                  <<255, 100, 100, 255>>) >>)

create_barracks_sprite(size) ==
    LET margin == 3
        wx(i) == margin + 8 + i * 12
        door_w == 20
        cx == size \div 2
        star_cx == size - margin - 10
        star_cy == size \div 3 + 8
    IN  Draw(ImageNew(size, size, Transparent), <<
          Rectangle(margin, size \div 5, size - margin, size - margin,
                    <<90, 85, 80, 255>>),
          Rectangle(margin - 1, size \div 5 - 3, size - margin + 1, size \div 5 + 2,
                    <<70, 65, 60, 255>>) >>
          \o [i \in 1 .. 3 |->
                Rectangle(wx(i - 1), size \div 3, wx(i - 1) + 8, size \div 3 + 4,
                          <<40, 60, 80, 255>>)]
          \o <<
          Rectangle(cx - door_w \div 2, size \div 2, cx + door_w \div 2, size - margin,
                    <<50, 50, 50, 255>>),
          Line(cx, size \div 2, cx, size - margin, <<40, 40, 40, 255>>, 1),
          Polygon(<< <<star_cx, star_cy - 5>>,
                     <<star_cx + 2, star_cy - 1>>,
                     <<star_cx + 5, star_cy>>,
                     <<star_cx + 2, star_cy + 1>>,
                     <<star_cx, star_cy + 5>>,
                     <<star_cx - 2, star_cy + 1>>,
                     <<star_cx - 5, star_cy>>,
                     <<star_cx - 2, star_cy - 1>> >>, <<180, 50, 50, 255>>) >>)

create_supply_depot_sprite(size) ==
    LET margin == 2
    IN  Draw(ImageNew(size, size, Transparent), <<
          Rectangle(margin, size \div 3, size - margin, size - margin,
                    <<140, 130, 110, 255>>),
          Polygon(<< <<margin, size \div 3>>,
                     <<size \div 2, margin + 2>>,
                     <<size - margin, size \div 3>> >>, <<120, 80, 60, 255>>),
          Rectangle(4, size \div 2, size - 4, size - margin, <<100, 90, 70, 255>>),
          Rectangle(6, size \div 2 + 4, 12, size - 4, <<180, 140, 80, 255>>),
          Rectangle(14, size \div 2 + 6, 20, size - 4, <<160, 120, 60, 255>>),
          Rectangle(22, size \div 2 + 4, 28, size - 4, <<170, 130, 70, 255>>) >>)

create_tech_lab_sprite(size) ==
    LET margin == 3
        cx == size \div 2
        win_color == <<100, 200, 255, 255>>
        wx(i) == margin + 6 + i * 16
        wy(j) == size \div 3 + 4 + j * 10
    IN  Draw(ImageNew(size, size, Transparent), <<
          Rectangle(margin, size \div 4, size - margin, size - margin,
                    <<80, 70, 120, 255>>),
          Ellipse(cx - size \div 4, margin, cx + size \div 4, size \div 3,
                  <<100, 90, 150, 255>>) >>
          \o [k \in 1 .. 4 |->
                Ellipse(wx((k - 1) \div 2), wy((k - 1) % 2),
                        wx((k - 1) \div 2) + 8, wy((k - 1) % 2) + 6, win_color)]
          \o <<
          Ellipse(cx - 4, size \div 5, cx + 4, size \div 5 + 8, <<150, 100, 255, 255>>),
          Arc(size - margin - 12, margin, size - margin, margin + 10, 180, 360,
              <<150, 150, 150, 255>>, 2),
          Line(size - margin - 6, margin + 5, size - margin - 6, margin + 12,
               <<100, 100, 100, 255>>, 1) >>)

create_turret_sprite(size) ==
    LET cx == size \div 2
        cy == size \div 2
        base_r == size \div 3
        col_w == 4
        head_r == size \div 4
    IN  Draw(ImageNew(size, size, Transparent), <<
          Ellipse(cx - base_r, size - 8, cx + base_r, size - 2, <<80, 80, 80, 255>>),
          Rectangle(cx - col_w, cy, cx + col_w, size - 6, <<100, 100, 100, 255>>),
          Ellipse(cx - head_r, cy - head_r + 2, cx + head_r, cy + head_r + 2,
                  <<120, 120, 120, 255>>),
          Rectangle(cx - 2, 2, cx + 2, cy, <<60, 60, 60, 255>>),
          Ellipse(cx - 3, 0, cx + 3, 5, <<255, 200, 100, 200>>) >>)

create_resource_node_sprite(size, permanent) ==
    LET cx == size \div 2
        cy == size \div 2
        ox(i) == 8 + (i % 3) * 10 + (i \div 3) * 5
        oy(i) == size \div 3 + (i % 2) * 8
        chunk_size(i) == 8 + (i % 3) * 2
    IN  IF permanent
        THEN Draw(ImageNew(size, size, Transparent), <<
               Polygon(<< <<cx, 4>>,
                          <<cx + 10, cy - 4>>,
                          <<cx + 8, size - 8>>,
                          <<cx - 8, size - 8>>,
                          <<cx - 10, cy - 4>> >>, <<60, 200, 100, 255>>),
               Polygon(<< <<6, cy>>, <<14, 8>>, <<16, cy + 6>> >>,
                       <<80, 220, 120, 255>>),
               Polygon(<< <<size - 6, cy>>, <<size - 14, 10>>, <<size - 16, cy + 4>> >>,
                       <<50, 180, 90, 255>>),
               Ellipse(cx - 6, cy - 2, cx + 6, cy + 8, <<100, 255, 150, 100>>) >>)
        ELSE Draw(ImageNew(size, size, Transparent), <<
               Ellipse(4, size \div 2, size - 4, size - 4, <<180, 140, 40, 255>>) >>
               \o [i \in 1 .. 5 |->
                     Ellipse(ox(i - 1), oy(i - 1), ox(i - 1) + chunk_size(i - 1),
                             oy(i - 1) + chunk_size(i - 1), <<220, 180, 60, 255>>)]
               \o <<
               Ellipse(cx - 2, cy - 4, cx + 2, cy, <<255, 240, 180, 255>>),
               Ellipse(cx + 6, cy + 2, cx + 9, cy + 5, <<255, 230, 160, 255>>) >>)

TerrainHeight == 60

create_terrain_sprite(size) ==
    Draw(ImageNew(size, TerrainHeight, Transparent), <<
      Polygon(<< <<10, 55>>, <<5, 35>>, <<15, 15>>, <<35, 8>>, <<55, 12>>, <<70, 20>>,
                 <<75, 40>>, <<70, 55>> >>, <<100, 95, 85, 255>>),
      Polygon(<< <<20, 45>>, <<18, 30>>, <<30, 18>>, <<45, 20>>, <<48, 35>> >>,
              <<120, 115, 105, 255>>),
      Polygon(<< <<50, 50>>, <<55, 25>>, <<68, 30>>, <<70, 50>> >>,
              <<80, 75, 65, 255>>) >>)

(***************************************************************************)
(* The tint transform.                                                     *)
(***************************************************************************)
CONTINUITY_BLUE == <<51, 102, 204>>
COLLEGIUM_GOLD == <<204, 153, 51>>

\* c * (1 - intensity) + f * intensity, a float
BlendValue(c, f, t) == FAdd(FMulInt(c, FOneMinus(t)), FMulInt(f, t))

\* a blend that rounds to the nearest integer instead of truncating
Blend_rounded(c, f, t) ==
    LET v == BlendValue(c, f, t)
    IN  IF FFracGeqHalf(v) THEN v[4] + 1 ELSE v[4]

\* a blend that adds the target's share without scaling the source down
Blend_unscaled(c, f, t) == FInt(FAdd(FMulInt(c, FloatLit(1, 1)), FMulInt(f, t)))

\* a blend that replaces the source by the target
Blend_replace(c, f, t) == f

\* int(c * (1 - intensity) + f * intensity)
Blend(c, f, t) == FInt(BlendValue(c, f, t))

\* tints every pixel, transparent ones too
TintPixel_every(p, faction_color, intensity) ==
    <<Blend(p[1], faction_color[1], intensity),
      Blend(p[2], faction_color[2], intensity),
      Blend(p[3], faction_color[3], intensity), p[4]>>

\* tints fully opaque pixels only
TintPixel_opaque(p, faction_color, intensity) ==
    IF p[4] = 255
    THEN <<Blend(p[1], faction_color[1], intensity),
           Blend(p[2], faction_color[2], intensity),
           Blend(p[3], faction_color[3], intensity), p[4]>>
    ELSE p

\* the body of the pixel loop
TintPixel(p, faction_color, intensity) ==
    IF p[4] > 0
    THEN <<Blend(p[1], faction_color[1], intensity),
           Blend(p[2], faction_color[2], intensity),
           Blend(p[3], faction_color[3], intensity), p[4]>>
    ELSE p

\* the pixels of a canvas after the loop over y and x
TintCanvas(c, faction_color, intensity) ==
    [c EXCEPT !.px = [y \in 1 .. c.height |-> [x \in 1 .. c.width |->
                          TintPixel(c.px[y][x], faction_color, intensity)]]]

\* a copy that is the same object as the original
ImageCopy_alias(h, img) == [heap |-> h, ret |-> img]

\* img.copy(): a new canvas object with the same content
ImageCopy(h, img) == [heap |-> Append(h, h[img]), ret |-> Len(h) + 1]

\* apply_faction_tint on the heap h: the heap after the call and the
\* canvas returned
apply_faction_tint(h, img, faction_color, intensity) ==
    LET c == ImageCopy(h, img)
        result == c.ret
    IN  [heap |-> [c.heap EXCEPT ![result] =
                       TintCanvas(c.heap[result], faction_color, intensity)],
         ret |-> result]

(***************************************************************************)
(* The driver: the module's import, then main().                           *)
(***************************************************************************)
OUTPUT_DIR == <<"tools", "..", "assets", "textures", "sprites">>

PathJoin(dir, name) == Append(dir, name)
\* f"{name}.png"
Png(name) == <<name, ".png">>
Parent(path) == SubSeq(path, 1, Len(path) - 1)
\* os.makedirs(path, exist_ok=True)
MakeDirs(ds, path) == ds \cup {SubSeq(path, 1, k) : k \in 1 .. Len(path)}

SpriteNames ==
    <<"infantry", "ranger", "harvester", "depot", "barracks", "supply_depot",
      "tech_lab", "turret", "resource_temp", "resource_perm", "terrain">>

\* the value of the k-th entry of the sprites dictionary
SpriteValue(k) ==
    CASE k = 1  -> create_infantry_sprite(32)
      [] k = 2  -> create_ranger_sprite(32)
      [] k = 3  -> create_harvester_sprite(36)
      [] k = 4  -> create_depot_sprite(64)
      [] k = 5  -> create_barracks_sprite(48)
      [] k = 6  -> create_supply_depot_sprite(32)
      [] k = 7  -> create_tech_lab_sprite(40)
      [] k = 8  -> create_turret_sprite(24)
      [] k = 9  -> create_resource_node_sprite(40, FALSE)
      [] k = 10 -> create_resource_node_sprite(40, TRUE)
      [] k = 11 -> create_terrain_sprite(80)

factions ==
    << [name |-> "continuity", color |-> CONTINUITY_BLUE],
       [name |-> "collegium", color |-> COLLEGIUM_GOLD] >>

unit_sprites == <<"infantry", "ranger", "harvester">>
building_sprites == <<"depot", "barracks", "supply_depot", "tech_lab", "turret">>

\* the list the inner loop of main runs over, units only
TintedNames_units == unit_sprites

\* the list the inner loop of main runs over
TintedNames == unit_sprites \o building_sprites

\* the intensity main passes
TintIntensity == FloatLit(35, 100)

\* sprites[name]
Lookup(d, name) == (CHOOSE e \in {d[i] : i \in 1 .. Len(d)} : e.name = name).img

\* what a file holds after a save that failed: a failed save writes no
\* decodable image; whether it leaves a file behind is up to the library
Truncated == [width |-> 0, height |-> 0, px |-> <<>>]

Written(fs, path, content) == [q \in DOMAIN fs \cup {path} |->
                                  IF q = path THEN content ELSE fs[q]]

Import ==
    /\ pc = "import"
    /\ dirs' = MakeDirs(dirs, OUTPUT_DIR)
    /\ pc' = "build"
    /\ UNCHANGED <<heap, sprites, files, writes, fi, si, tinted, args, ret>>

\* one entry of the dictionary literal
BuildSprite ==
    /\ pc = "build"
    /\ LET k == Len(sprites) + 1
       IN  /\ heap' = Append(heap, SpriteValue(k))
           /\ sprites' = Append(sprites, [name |-> SpriteNames[k], img |-> Len(heap) + 1])
           /\ IF k = Len(SpriteNames)
              THEN pc' = "save_base" /\ si' = 1
              ELSE pc' = "build" /\ si' = si
    /\ UNCHANGED <<dirs, files, writes, fi, tinted, args, ret>>

\* one round of the loop that saves the base sprites
SaveBase ==
    /\ pc = "save_base"
    /\ LET path == PathJoin(OUTPUT_DIR, Png(sprites[si].name))
       IN  /\ Parent(path) \in dirs
           /\ files' = Written(files, path, heap[sprites[si].img])
           /\ writes' = Append(writes, path)
    /\ IF si = Len(sprites)
       THEN pc' = "faction_dir" /\ fi' = 1 /\ si' = si
       ELSE pc' = "save_base" /\ fi' = fi /\ si' = si + 1
    /\ UNCHANGED <<heap, sprites, dirs, tinted, args, ret>>

\* the head of a round of the loop over the factions
MakeFactionDir ==
    /\ pc = "faction_dir"
    /\ dirs' = MakeDirs(dirs, PathJoin(OUTPUT_DIR, factions[fi].name))
    /\ pc' = "tint"
    /\ si' = 1
    /\ UNCHANGED <<heap, sprites, files, writes, fi, tinted, args, ret>>

\* the call of apply_faction_tint in the inner loop
Tint ==
    /\ pc = "tint"
    /\ LET r == apply_faction_tint(heap, Lookup(sprites, TintedNames[si]),
                                   factions[fi].color, TintIntensity)
       IN  heap' = r.heap /\ tinted' = r.ret
    /\ pc' = "save_tinted"
    /\ UNCHANGED <<sprites, dirs, files, writes, fi, si, args, ret>>

\* the save that ends a round of the inner loop
SaveTinted ==
    /\ pc = "save_tinted"
    /\ LET path == PathJoin(PathJoin(OUTPUT_DIR, factions[fi].name), Png(TintedNames[si]))
       IN  /\ Parent(path) \in dirs
           /\ files' = Written(files, path, heap[tinted])
           /\ writes' = Append(writes, path)
    /\ IF si < Len(TintedNames)
       THEN pc' = "tint" /\ si' = si + 1 /\ fi' = fi
       ELSE IF fi < Len(factions)
            THEN pc' = "faction_dir" /\ fi' = fi + 1 /\ si' = si
            ELSE pc' = "done" /\ fi' = fi /\ si' = si
    /\ UNCHANGED <<heap, sprites, dirs, tinted, args, ret>>

\* the path the statement at pc would write
PathAt ==
    IF pc = "save_base" THEN PathJoin(OUTPUT_DIR, Png(sprites[si].name))
    ELSE PathJoin(PathJoin(OUTPUT_DIR, factions[fi].name), Png(TintedNames[si]))

\* a failed save that is swallowed: the loop goes on with the next round
SaveFails_swallowed ==
    /\ pc \in {"save_base", "save_tinted"}
    /\ IF pc = "save_base"
       THEN IF si = Len(sprites)
            THEN pc' = "faction_dir" /\ fi' = 1 /\ si' = si
            ELSE pc' = "save_base" /\ fi' = fi /\ si' = si + 1
       ELSE IF si < Len(TintedNames)
            THEN pc' = "tint" /\ si' = si + 1 /\ fi' = fi
            ELSE IF fi < Len(factions)
                 THEN pc' = "faction_dir" /\ fi' = fi + 1 /\ si' = si
                 ELSE pc' = "done" /\ fi' = fi /\ si' = si
    /\ UNCHANGED <<heap, sprites, dirs, files, writes, tinted, args, ret>>

\* img.save(path) or tinted.save(path) raises: nothing catches the
\* exception, so it ends main and the run
SaveFails ==
    /\ pc \in {"save_base", "save_tinted"}
    /\ \E leftover \in BOOLEAN :
          files' = IF leftover THEN Written(files, PathAt, Truncated) ELSE files
    /\ pc' = "crashed"
    /\ UNCHANGED <<heap, sprites, dirs, writes, fi, si, tinted, args, ret>>

\* os.makedirs raises, at import or in main
MakeDirsFails ==
    /\ pc \in {"import", "faction_dir"}
    /\ pc' = "crashed"
    /\ UNCHANGED <<heap, sprites, dirs, files, writes, fi, si, tinted, args, ret>>

Init ==
    /\ pc = "import"
    /\ heap = <<>>
    /\ sprites = <<>>
    /\ dirs = {<<"tools">>}
    /\ files = <<>>
    /\ writes = <<>>
    /\ fi = 0
    /\ si = 0
    /\ tinted = 0
    /\ args = <<>>
    /\ ret = <<>>

Next ==
    \/ Import
    \/ BuildSprite
    \/ SaveBase
    \/ MakeFactionDir
    \/ Tint
    \/ SaveTinted
    \/ SaveFails
    \/ MakeDirsFails

Spec == Init /\ [][Next]_vars

(***************************************************************************)
(* The generators called with any size in 1 .. MaxSize.                    *)
(***************************************************************************)
\* the sizes main passes
DriverSizes == {24, 32, 36, 40, 48, 64, 80}

Sizes == (1 .. MaxSize) \cup DriverSizes

GenCall(fn, size, permanent, canvas) ==
    /\ pc = "gen_call"
    /\ args' = [fn |-> fn, size |-> size, permanent |-> permanent]
    /\ heap' = Append(heap, canvas)
    /\ ret' = <<Len(heap) + 1>>
    /\ pc' = "gen_ret"
    /\ UNCHANGED <<sprites, dirs, files, writes, fi, si, tinted>>

CallInfantry ==
    \E size \in Sizes : GenCall("infantry", size, FALSE, create_infantry_sprite(size))
CallRanger ==
    \E size \in Sizes : GenCall("ranger", size, FALSE, create_ranger_sprite(size))
CallHarvester ==
    \E size \in Sizes : GenCall("harvester", size, FALSE, create_harvester_sprite(size))
CallDepot ==
    \E size \in Sizes : GenCall("depot", size, FALSE, create_depot_sprite(size))
CallBarracks ==
    \E size \in Sizes : GenCall("barracks", size, FALSE, create_barracks_sprite(size))
CallSupplyDepot ==
    \E size \in Sizes :
        GenCall("supply_depot", size, FALSE, create_supply_depot_sprite(size))
CallTechLab ==
    \E size \in Sizes : GenCall("tech_lab", size, FALSE, create_tech_lab_sprite(size))
CallTurret ==
    \E size \in Sizes : GenCall("turret", size, FALSE, create_turret_sprite(size))
CallResourceNode ==
    \E size \in Sizes, permanent \in BOOLEAN :
        GenCall("resource_node", size, permanent,
                create_resource_node_sprite(size, permanent))
CallTerrain ==
    \E size \in Sizes : GenCall("terrain", size, FALSE, create_terrain_sprite(size))

GenInit ==
    /\ pc = "gen_call"
    /\ heap = <<>>
    /\ sprites = <<>>
    /\ dirs = {}
    /\ files = <<>>
    /\ writes = <<>>
    /\ fi = 0
    /\ si = 0
    /\ tinted = 0
    /\ args = <<>>
    /\ ret = <<>>

GenNext ==
    \/ CallInfantry
    \/ CallRanger
    \/ CallHarvester
    \/ CallDepot
    \/ CallBarracks
    \/ CallSupplyDepot
    \/ CallTechLab
    \/ CallTurret
    \/ CallResourceNode
    \/ CallTerrain

GenSpec == GenInit /\ [][GenNext]_vars

(***************************************************************************)
(* apply_faction_tint called on a canvas, and again on its result.         *)
(***************************************************************************)
ChanMax == 255

\* the intensities tried: 0, 0.3, 0.35 (what main passes), 0.4 (the
\* default), 0.5 and 1
Intensities ==
    {FloatLit(0, 1), FloatLit(3, 10), FloatLit(35, 100), FloatLit(4, 10),
     FloatLit(1, 2), FloatLit(1, 1)}

TargetColors == {CONTINUITY_BLUE, COLLEGIUM_GOLD, <<3, 6, 12>>}

\* transparent black, a transparent pixel that has a colour, a translucent
\* pixel and two opaque ones
Palette ==
    {Transparent, <<10, 20, 30, 0>>, <<255, 200, 100, 200>>, <<3, 6, 12, 255>>,
     <<200, 200, 200, 255>>}

\* the dimensions of a canvas of at most MaxPixels pixels
SmallDims == {d \in (1 .. MaxPixels) \X (1 .. MaxPixels) : d[1] * d[2] <= MaxPixels}

PaletteImages ==
    UNION {{[width |-> d[1], height |-> d[2], px |-> f] :
              f \in [1 .. d[2] -> [1 .. d[1] -> Palette]]} : d \in SmallDims}

\* one opaque pixel for every value of a channel
RampImages ==
    {[width |-> 1, height |-> 1,
      px |-> Grid(1, 1, <<c, ChanMax - c, (7 * c + 3) % (ChanMax + 1), ChanMax>>)] :
        c \in 0 .. ChanMax}

\* the base sprite main builds under a name
BaseSprite(name) == SpriteValue(CHOOSE k \in 1 .. Len(SpriteNames) : SpriteNames[k] = name)

TintInit ==
    /\ pc = "tint_call"
    /\ \/ \E img \in PaletteImages \cup RampImages, color \in TargetColors,
             t \in Intensities :
             /\ heap = <<img>>
             /\ args = [img |-> 1, faction_color |-> color, intensity |-> t,
                        sprite |-> ""]
       \/ \E n \in 1 .. Len(TintedNames), k \in 1 .. Len(factions) :
             /\ heap = <<BaseSprite(TintedNames[n])>>
             /\ args = [img |-> 1, faction_color |-> factions[k].color,
                        intensity |-> TintIntensity, sprite |-> TintedNames[n]]
    /\ sprites = <<>>
    /\ dirs = {}
    /\ files = <<>>
    /\ writes = <<>>
    /\ fi = 0
    /\ si = 0
    /\ tinted = 0
    /\ ret = <<>>

\* result = apply_faction_tint(img, faction_color, intensity)
TintOnce ==
    /\ pc = "tint_call"
    /\ LET r == apply_faction_tint(heap, args.img, args.faction_color, args.intensity)
       IN  heap' = r.heap /\ ret' = <<r.ret>>
    /\ pc' = "tint_once"
    /\ UNCHANGED <<sprites, dirs, files, writes, fi, si, tinted, args>>

\* apply_faction_tint(result, faction_color, intensity)
TintTwice ==
    /\ pc = "tint_once"
    /\ LET r == apply_faction_tint(heap, ret[1], args.faction_color, args.intensity)
       IN  heap' = r.heap /\ ret' = Append(ret, r.ret)
    /\ pc' = "tint_twice"
    /\ UNCHANGED <<sprites, dirs, files, writes, fi, si, tinted, args>>

TintNext ==
    \/ TintOnce
    \/ TintTwice

TintSpec == TintInit /\ [][TintNext]_vars

(***************************************************************************)
(* Properties of apply_faction_tint, checked under TintSpec.  A step of    *)
(* TintSpec is one call: its input canvas is CallIn in the state before    *)
(* the step and its result is the last entry of ret after it.              *)
(***************************************************************************)
IsCall == pc \in {"tint_call", "tint_once"} /\ pc' # pc
CallIn == IF pc = "tint_call" THEN args.img ELSE ret[1]
\* the input canvas, as it was when the call was made
Src == heap[CallIn]
\* the canvas the call returned
Dst == heap'[ret'[Len(ret')]]
\* the first call's input and result, in the state after it
Src1 == heap[args.img]
Dst1 == heap[ret[1]]
IsOpaque(p) == p[4] > 0
\* the positions <<x, y>> a canvas has a pixel at, and the pixel at one
Positions(c) == UNION {{<<x - 1, y - 1>> : x \in DOMAIN c.px[y]} : y \in DOMAIN c.px}
At(c, p) == c.px[p[2] + 1][p[1] + 1]

\* C1: the result of apply_faction_tint has, at every position, the alpha of
\* the input pixel at that position, and every input pixel with alpha 0
\* appears in the result with all four channels unchanged.
C1_AlphaPreserved ==
    [][IsCall =>
         /\ Positions(Dst) = Positions(Src)
         /\ \A p \in Positions(Src) :
               /\ At(Dst, p)[4] = At(Src, p)[4]
               /\ At(Src, p)[4] = 0 => At(Dst, p) = At(Src, p)]_vars

\* a call with a positive intensity on a canvas that has a transparent pixel
\* with a colour and a pixel the tint changed
C1_Witness ==
    /\ pc = "tint_once"
    /\ args.intensity # FloatLit(0, 1)
    /\ \E p \in Positions(Src1) : At(Src1, p) = <<10, 20, 30, 0>> /\ At(Dst1, p) = At(Src1, p)
    /\ \E p \in Positions(Src1) : IsOpaque(At(Src1, p)) /\ At(Dst1, p) # At(Src1, p)

\* C2: for every pixel with alpha > 0, each of R, G, B of the result is the
\* float value channel*(1-intensity) + target_channel*intensity truncated
\* toward zero (the integer n with n <= value < n + 1), the channel blended
\* against the same channel of the target colour.
C2_BlendTruncated ==
    [][IsCall =>
         \A p \in Positions(Src) :
            IsOpaque(At(Src, p)) =>
               \A k \in 1 .. 3 :
                  LET v == FAdd(FMulInt(At(Src, p)[k], FOneMinus(args.intensity)),
                                FMulInt(args.faction_color[k], args.intensity))
                  IN  /\ FGeqInt(v, At(Dst, p)[k])
                      /\ FLtInt(v, At(Dst, p)[k] + 1)]_vars

\* a tinted pixel one of whose blends has a fraction of at least one half,
\* so that rounding would give another value, toward a target whose three
\* channels differ
C2_Witness ==
    /\ pc = "tint_once"
    /\ Cardinality({args.faction_color[k] : k \in 1 .. 3}) = 3
    /\ \E p \in Positions(Src1) :
          /\ IsOpaque(At(Src1, p))
          /\ \E k \in 1 .. 3 :
                /\ FFracGeqHalf(BlendValue(At(Src1, p)[k], args.faction_color[k],
                                           args.intensity))
                /\ At(Dst1, p)[k] # At(Src1, p)[k]

\* C3: apply_faction_tint leaves its input as it was (and every other canvas
\* too); the canvas it returns is a new object, not the input, of the
\* input's width and height.
C3_InputUntouched ==
    [][IsCall =>
         /\ \A i \in DOMAIN heap : heap'[i] = heap[i]
         /\ ret'[Len(ret')] \notin DOMAIN heap
         /\ ret'[Len(ret')] # CallIn
         /\ Dst.width = Src.width
         /\ Dst.height = Src.height]_vars

\* a call whose result differs from its input
C3_Witness ==
    /\ pc = "tint_once"
    /\ ret[1] # args.img
    /\ Dst1.px # Src1.px

\* C4: with intensity 0 the result is pixel-identical to the input; with
\* intensity 1 every pixel with alpha > 0 has the target's R, G, B and its
\* own alpha.
C4_BoundaryIntensities ==
    [][IsCall =>
         /\ args.intensity = FloatLit(0, 1) => Dst = Src
         /\ args.intensity = FloatLit(1, 1) =>
               \A p \in Positions(Src) :
                  IsOpaque(At(Src, p)) =>
                     At(Dst, p) = <<args.faction_color[1], args.faction_color[2],
                                   args.faction_color[3], At(Src, p)[4]>>]_vars

\* a call with intensity 1 on a canvas with a translucent pixel, which took
\* the target's colour
C4_Witness ==
    /\ pc = "tint_once"
    /\ args.intensity = FloatLit(1, 1)
    /\ \E p \in Positions(Src1) :
          /\ At(Src1, p) = <<255, 200, 100, 200>>
          /\ At(Dst1, p) = <<51, 102, 204, 200>>

\* C5: for each of the sprites main tints and each of the two faction
\* colours, tinting twice at 0.35 gives an image that differs from tinting
\* once at 0.35.
C5_NotIdempotent ==
    (/\ pc = "tint_twice"
     /\ args.sprite \in {"infantry", "ranger", "harvester", "depot", "barracks",
                         "supply_depot", "tech_lab", "turret"}
     /\ args.faction_color \in {<<51, 102, 204>>, <<204, 153, 51>>}
     /\ args.intensity = FloatLit(35, 100))
    => heap[ret[2]] # heap[ret[1]]

\* the ranger tinted twice toward the second faction's colour
C5_Witness ==
    /\ pc = "tint_twice"
    /\ args.sprite = "ranger"
    /\ args.faction_color = <<204, 153, 51>>
    /\ args.intensity = FloatLit(35, 100)
    /\ heap[1].width = 32

\* C10 as stated: every tinted R, G, B lies in the closed interval between
\* the source channel and the target channel.
C10_Original ==
    [][IsCall =>
         \A p \in Positions(Src) :
            IsOpaque(At(Src, p)) =>
               \A k \in 1 .. 3 :
                  /\ Min(At(Src, p)[k], args.faction_color[k]) <= At(Dst, p)[k]
                  /\ At(Dst, p)[k] <= Max(At(Src, p)[k], args.faction_color[k])]_vars

\* C10 amended: every tinted R, G, B is in 0 .. 255, at most the larger of
\* the source and target channels and at least the smaller of them minus one.
C10_WithinOneBelow ==
    [][IsCall =>
         \A p \in Positions(Src) :
            IsOpaque(At(Src, p)) =>
               \A k \in 1 .. 3 :
                  /\ Min(At(Src, p)[k], args.faction_color[k]) - 1 <= At(Dst, p)[k]
                  /\ At(Dst, p)[k] <= Max(At(Src, p)[k], args.faction_color[k])
                  /\ 0 <= At(Dst, p)[k]
                  /\ At(Dst, p)[k] <= 255]_vars

\* a channel equal to the target's that the tint moved one below it
C10_Witness ==
    /\ pc = "tint_once"
    /\ \E p \in Positions(Src1) :
          /\ IsOpaque(At(Src1, p))
          /\ \E k \in 1 .. 3 :
                /\ At(Src1, p)[k] = args.faction_color[k]
                /\ At(Dst1, p)[k] = At(Src1, p)[k] - 1

(***************************************************************************)
(* Properties of the generators, checked under GenSpec.                    *)
(***************************************************************************)
\* C7: every generator called with a size returns a canvas size wide and
\* size high, but create_terrain_sprite, whose canvas is size wide and 60
\* high; this holds for both values of permanent.
C7_DeclaredDimensions ==
    pc = "gen_ret" =>
       LET c == heap[ret[1]]
           h == IF args.fn = "terrain" THEN 60 ELSE args.size
       IN  /\ c.width = args.size
           /\ c.height = h
           /\ DOMAIN c.px = 1 .. h
           /\ \A y \in 1 .. h : DOMAIN c.px[y] = 1 .. args.size

\* the terrain generator has returned a canvas that is not square
C7_Witness ==
    /\ pc = "gen_ret"
    /\ args.fn = "terrain"
    /\ args.size = 80
    /\ heap[ret[1]].height # heap[ret[1]].width

(***************************************************************************)
(* Properties of the driver, checked under Spec.                           *)
(***************************************************************************)
BasePath(name) == <<"tools", "..", "assets", "textures", "sprites", <<name, ".png">> >>
FactionPath(faction, name) ==
    <<"tools", "..", "assets", "textures", "sprites", faction, <<name, ".png">> >>
\* the writes of a run that went into a directory
WritesIn(dir) == {i \in 1 .. Len(writes) : Parent(writes[i]) = dir}
FilesIn(dir) == {q \in DOMAIN files : Parent(q) = dir}
FactionDir(faction) == <<"tools", "..", "assets", "textures", "sprites", faction>>

\* C6 as stated: a complete run writes 11 base files and 16 tinted files for
\* each faction, 32 tinted files in all.
C6_Original ==
    pc = "done" =>
       /\ Cardinality(WritesIn(OUTPUT_DIR)) = 11
       /\ \A f \in {"continuity", "collegium"} : Cardinality(WritesIn(FactionDir(f))) = 16
       /\ Len(writes) = 11 + 32

\* C6 amended: a complete run writes 11 base files and 8 tinted files for
\* each faction, 16 tinted files in all, every file once.
C6_FileCount ==
    pc = "done" =>
       /\ Cardinality(WritesIn(OUTPUT_DIR)) = 11
       /\ Cardinality(FilesIn(OUTPUT_DIR)) = 11
       /\ \A f \in {"continuity", "collegium"} :
             /\ Cardinality(WritesIn(FactionDir(f))) = 8
             /\ Cardinality(FilesIn(FactionDir(f))) = 8
       /\ Len(writes) = 11 + 16
       /\ Cardinality(DOMAIN files) = 11 + 16

\* a complete run
C6_Witness ==
    /\ pc = "done"
    /\ BasePath("terrain") \in DOMAIN files
    /\ FactionPath("collegium", "turret") \in DOMAIN files

\* the order in which a run writes its files
WriteOrder ==
    [i \in 1 .. 11 |-> BasePath(SpriteNames[i])]
    \o [i \in 1 .. 8 |-> FactionPath("continuity", (unit_sprites \o building_sprites)[i])]
    \o [i \in 1 .. 8 |-> FactionPath("collegium", (unit_sprites \o building_sprites)[i])]

\* C8: a save that fails ends the run in the failure state, from which
\* nothing more happens; so the files written are always the first so many
\* of the write order, each once: none is written after a failed one.
C8_FailedWriteAborts ==
    /\ [](/\ Len(writes) <= Len(WriteOrder)
          /\ writes = SubSeq(WriteOrder, 1, Len(writes)))
    /\ [][/\ pc # "crashed"
          /\ (pc \in {"save_base", "save_tinted"} /\ writes' = writes) => pc' = "crashed"
          /\ pc' = "crashed" => writes' = writes]_vars

\* a run that failed while saving the second faction's tinted files
C8_Witness ==
    /\ pc = "crashed"
    /\ Len(writes) > 11 + 8
    /\ Len(writes) < 11 + 16

\* C9: after a complete run the tinted files are those of the two factions
\* and the 8 unit and building names, and each holds the tint, at 0.35 and
\* toward its faction's colour, of the untinted sprite saved under that name.
C9_TintOfBase ==
    pc = "done" =>
       /\ FilesIn(FactionDir("continuity")) \cup FilesIn(FactionDir("collegium")) =
             {FactionPath(f, n) : f \in {"continuity", "collegium"},
                                  n \in {"infantry", "ranger", "harvester", "depot",
                                         "barracks", "supply_depot", "tech_lab", "turret"}}
       /\ DOMAIN files = FilesIn(OUTPUT_DIR) \cup FilesIn(FactionDir("continuity"))
                            \cup FilesIn(FactionDir("collegium"))
       /\ \A n \in {"infantry", "ranger", "harvester", "depot", "barracks",
                    "supply_depot", "tech_lab", "turret"} :
             /\ files[BasePath(n)] = BaseSprite(n)
             /\ files[FactionPath("continuity", n)] =
                   TintCanvas(files[BasePath(n)], <<51, 102, 204>>, FloatLit(35, 100))
             /\ files[FactionPath("collegium", n)] =
                   TintCanvas(files[BasePath(n)], <<204, 153, 51>>, FloatLit(35, 100))

\* a complete run in which the second faction's depot differs from the first
\* faction's and from the base
C9_Witness ==
    /\ pc = "done"
    /\ files[FactionPath("collegium", "depot")] # files[FactionPath("continuity", "depot")]
    /\ files[FactionPath("collegium", "depot")] # files[BasePath("depot")]

====
